---- MODULE Spec2Model ----
(***************************************************************************)
(* Model of notebooks/01_broadcast_join.py: the country loader             *)
(* (get_countries_df), the paginated fact builder (get_sales_df), the      *)
(* broadcast left join, the Delta overwrite and the two prints.            *)
(*                                                                         *)
(* Representation.  A Python dict is a TLA+ record whose DOMAIN is the set *)
(* of keys present, so an absent key is a field that is not there.  A      *)
(* nullable value is None or S(s); a string that the code slices or        *)
(* upper-cases is a sequence of one-character strings.  A DataFrame is the *)
(* sequence of its rows.  Amounts: cart totals are integers in thousandths,*)
(* rounded amounts are integers in hundredths.                             *)
(***************************************************************************)
EXTENDS Integers, Sequences, FiniteSets

VARIABLES pc, max_pages, i, data, df_countries, users, df_users, carts,
          df_sales, df_enriched, output, requests, stdout, failure

vars == <<pc, max_pages, i, data, df_countries, users, df_users, carts,
          df_sales, df_enriched, output, requests, stdout, failure>>

(***************************************************************************)
(* Bounds of the model.                                                    *)
(***************************************************************************)
\* Largest max_pages argument explored (the script passes a literal).
MaxPages == 2
\* Largest number of records the three endpoints return in one run, all
\* pages together.
MaxRecords == 4

(***************************************************************************)
(* Program constants.                                                      *)
(***************************************************************************)
\* limit= of the users and carts URLs.
PageLimit == 100
\* multiplier of the loop index in skip=.
SkipStride == 100
\* second argument of F.round.
RoundScale == 2
\* upper bound of the slice [:2].
CodeSlice == 2

(***************************************************************************)
(* Python / JSON values.                                                   *)
(***************************************************************************)
None == [k |-> "null"]
S(s) == [k |-> "str", s |-> s]
JInt(n) == [k |-> "int", n |-> n]

\* bool(v) for the values that occur: None and "" are falsy.
Truthy(v) == v # None /\ ~(v.k = "str" /\ v.s = <<>>)

\* dict.get(key): None when the key is absent.
DictGet(d, key) == IF key \in DOMAIN d THEN d[key] ELSE None

\* a or b
PyOr(a, b) == IF Truthy(a) THEN a ELSE b

Min(a, b) == IF a <= b THEN a ELSE b
Abs(n) == IF n < 0 THEN -n ELSE n

LowerCase == <<"a", "b", "c", "d", "e", "f", "g", "h", "i", "j", "k", "l", "m",
               "n", "o", "p", "q", "r", "s", "t", "u", "v", "w", "x", "y", "z">>
UpperCase == <<"A", "B", "C", "D", "E", "F", "G", "H", "I", "J", "K", "L", "M",
               "N", "O", "P", "Q", "R", "S", "T", "U", "V", "W", "X", "Y", "Z">>

\* str.upper() on one character.
UpperChar(c) ==
    IF \E n \in DOMAIN LowerCase : LowerCase[n] = c
    THEN UpperCase[CHOOSE n \in DOMAIN LowerCase : LowerCase[n] = c]
    ELSE c

\* s[:2].upper() on a sequence of characters.
SliceUpper(s) == [n \in 1..Min(CodeSlice, Len(s)) |-> UpperChar(s[n])]

Digit == <<"0", "1", "2", "3", "4", "5", "6", "7", "8", "9">>

RECURSIVE IntToStr(_)
\* f"{n}" for a non-negative int.
IntToStr(n) ==
    IF n < 10 THEN <<Digit[n + 1]>>
    ELSE Append(IntToStr(n \div 10), Digit[(n % 10) + 1])

\* f"{v}" for a JSON id that is a number or already a string.
FormatId(v) == IF v.k = "int" THEN IntToStr(v.n) ELSE v.s

\* A JSON number with a fractional part, held in thousandths.
JNum(t) == [k |-> "num", t |-> t]

\* float(x) in thousandths: a JSON integer gains three zero decimals.
FloatOf(x) == IF x.k = "int" THEN x.n * 1000 ELSE x.t

RECURSIVE Pow10(_)
Pow10(n) == IF n = 0 THEN 1 ELSE 10 * Pow10(n - 1)

\* Variant: the decimals beyond the scale are cut off.
RoundTruncate(t) ==
    (IF t < 0 THEN -1 ELSE 1) * (Abs(t) \div Pow10(3 - RoundScale))
\* F.round(col, 2) on a value in thousandths, result in hundredths: Spark
\* rounds HALF_UP, i.e. the magnitude is rounded and ties leave zero.
Round2(t) ==
    LET unit == Pow10(3 - RoundScale)
    IN  (IF t < 0 THEN -1 ELSE 1) * ((Abs(t) + unit \div 2) \div unit)

(***************************************************************************)
(* What the two public APIs may answer.                                    *)
(***************************************************************************)
UnitedStates == [common |-> S("United States")]
Switzerland == [common |-> S("Switzerland")]

\* Country objects: cca2 of 2 letters, of 3 letters, empty, null, absent.
CountryObjs ==
    { [cca2 |-> S(<<"U", "S">>), name |-> UnitedStates, region |-> S("Americas")],
      [cca2 |-> S(<<"C", "H">>), name |-> Switzerland, region |-> S("Europe")],
      [cca2 |-> S(<<"U", "S", "A">>), name |-> UnitedStates, region |-> S("Americas")],
      [cca2 |-> S(<<>>), name |-> UnitedStates, region |-> S("Americas")],
      [cca2 |-> None, name |-> UnitedStates, region |-> S("Americas")],
      [name |-> UnitedStates, region |-> S("Americas")] }

\* User objects: a country text, an empty one, a null one, an absent one.
UserObjs ==
    { [id |-> 1, address |-> [city |-> "a", country |-> S(<<"u", "s", "a">>)]],
      [id |-> 2, address |-> [city |-> "a", country |-> S(<<"c", "h", "i", "l", "e">>)]],
      [id |-> 2, address |-> [city |-> "a", country |-> S(<<>>)]],
      [id |-> 3, address |-> [city |-> "a", country |-> None]],
      [id |-> 3, address |-> [city |-> "a"]] }

\* Cart objects: ids as numbers or strings, users known and unknown, totals
\* on a tie, off a tie, negative and integral.
CartObjs ==
    { [id |-> JInt(1), userId |-> 1, total |-> JNum(12345)],
      [id |-> JInt(2), userId |-> 1, total |-> JNum(12346)],
      [id |-> JInt(2), userId |-> 3, total |-> JNum(12344)],
      [id |-> S(<<"1">>), userId |-> 2, total |-> JNum(-12345)],
      [id |-> JInt(12), userId |-> 9, total |-> JInt(7)] }

\* Rows found at the output location before the run.
OldRows ==
    << [sale_id |-> <<"0">>, amount |-> 100, country_name |-> None, region |-> None] >>

SeqsUpTo(T, n) == UNION { [1..m -> T] : m \in 0..n }

\* Records the endpoints may still return within MaxRecords.
Budget == MaxRecords - (Len(data) + Len(users) + Len(carts))

(***************************************************************************)
(* get_countries_df                                                        *)
(***************************************************************************)
CountriesUrl == [host |-> "restcountries.com", path |-> "/v3.1/all"]

CountryRow(c) ==
    [ country_code |-> DictGet(c, "cca2"),
      country_name |-> c.name.common,
      region       |-> DictGet(c, "region") ]

\* Variant: tests the presence of the key only.
KeepCountryIfKeyPresent(c) == "cca2" \in DOMAIN c
\* the filter of the list comprehension
KeepCountry(c) == Truthy(DictGet(c, "cca2"))

RECURSIVE CountryRows(_)
CountryRows(resp) ==
    IF resp = <<>> THEN <<>>
    ELSE (IF KeepCountry(Head(resp)) THEN <<CountryRow(Head(resp))>> ELSE <<>>)
         \o CountryRows(Tail(resp))

(***************************************************************************)
(* get_sales_df                                                            *)
(***************************************************************************)
\* Variant: skips one page too many.
PageUrlNextSkip(endpoint, n) ==
    [host |-> "dummyjson.com", path |-> endpoint, limit |-> PageLimit,
     skip |-> (n + 1) * SkipStride]
PageUrl(endpoint, n) ==
    [host |-> "dummyjson.com", path |-> endpoint, limit |-> PageLimit,
     skip |-> n * SkipStride]

\* u["address"]["country"] raises KeyError when the key is absent.
RaisesKeyError(u) == "country" \notin DOMAIN u.address

UserRow(u) ==
    [ userId       |-> u.id,
      country_code |-> S(SliceUpper(PyOr(u.address.country, S(<<"X", "X">>)).s)) ]

UsersRows(us) == [n \in 1..Len(us) |-> UserRow(us[n])]

\* Variant: formats the userId instead of the cart id.
SaleIdFromUser(cart) == IntToStr(cart.userId)
SaleId(cart) == FormatId(cart.id)

SaleRow(cart) ==
    [ sale_id |-> SaleId(cart),
      userId  |-> cart.userId,
      amount  |-> FloatOf(cart.total) ]

SalesRows(cs) == [n \in 1..Len(cs) |-> SaleRow(cs[n])]

\* The user rows a sale row joins with (userId is never null here).
UserMatches(s, urows) == SelectSeq(urows, LAMBDA u : u.userId = s.userId)

\* Variant: how="inner".
SalesJoinRowInner(s, urows) ==
    LET m == UserMatches(s, urows)
    IN  [n \in 1..Len(m) |->
            [sale_id |-> s.sale_id, country_code |-> m[n].country_code,
             amount |-> Round2(s.amount)]]
\* One left row of df_sales.join(df_users, on="userId", how="left")
\* .select(...).withColumn("amount", F.round("amount", 2))
SalesJoinRow(s, urows) ==
    LET m == UserMatches(s, urows)
    IN  IF m = <<>>
        THEN << [sale_id |-> s.sale_id, country_code |-> None,
                 amount |-> Round2(s.amount)] >>
        ELSE [n \in 1..Len(m) |->
                [sale_id |-> s.sale_id, country_code |-> m[n].country_code,
                 amount |-> Round2(s.amount)]]

RECURSIVE SalesJoin(_, _)
SalesJoin(srows, urows) ==
    IF srows = <<>> THEN <<>>
    ELSE SalesJoinRow(Head(srows), urows) \o SalesJoin(Tail(srows), urows)

(***************************************************************************)
(* Broadcast join                                                          *)
(***************************************************************************)
\* SQL equality of the join key: null equals nothing.
SqlEq(a, b) == a # None /\ b # None /\ a = b

CountryMatches(f, crows) ==
    SelectSeq(crows, LAMBDA c : SqlEq(f.country_code, c.country_code))

\* Variant: name and region exchanged.
EnrichedRowSwapped(f, c) ==
    [sale_id |-> f.sale_id, amount |-> f.amount,
     country_name |-> c.region, region |-> c.country_name]
EnrichedRow(f, c) ==
    [sale_id |-> f.sale_id, amount |-> f.amount,
     country_name |-> c.country_name, region |-> c.region]

\* Variant: how="inner".
EnrichRowInner(f, crows) ==
    LET m == CountryMatches(f, crows)
    IN  [n \in 1..Len(m) |-> EnrichedRow(f, m[n])]
EnrichRow(f, crows) ==
    LET m == CountryMatches(f, crows)
    IN  IF m = <<>>
        THEN << [sale_id |-> f.sale_id, amount |-> f.amount,
                 country_name |-> None, region |-> None] >>
        ELSE [n \in 1..Len(m) |-> EnrichedRow(f, m[n])]

RECURSIVE EnrichJoin(_, _)
EnrichJoin(frows, crows) ==
    IF frows = <<>> THEN <<>>
    ELSE EnrichRow(Head(frows), crows) \o EnrichJoin(Tail(frows), crows)

(***************************************************************************)
(* The script: statements in the order the module runs them.               *)
(***************************************************************************)
\* Variant: the plan is printed before the write.
ScriptOrderExplainFirst ==
    <<"get_countries_df", "get_sales_df", "join", "explain", "write", "count", "done">>
ScriptOrder ==
    <<"get_countries_df", "get_sales_df", "join", "write", "explain", "count", "done">>

\* get_sales_df is entered at its users loop.
Entry(stmt) == IF stmt = "get_sales_df" THEN "users" ELSE stmt

\* Where control goes when statement stmt has finished.
After(stmt) ==
    Entry(ScriptOrder[(CHOOSE n \in DOMAIN ScriptOrder : ScriptOrder[n] = stmt) + 1])

Init ==
    /\ pc = Entry(ScriptOrder[1])
    /\ max_pages \in 0..MaxPages
    /\ i = 0
    /\ data = <<>>
    /\ df_countries = <<>>
    /\ users = <<>>
    /\ df_users = <<>>
    /\ carts = <<>>
    /\ df_sales = <<>>
    /\ df_enriched = <<>>
    /\ output = [version |-> 0, rows |-> OldRows]
    /\ requests = <<>>
    /\ stdout = <<>>
    /\ failure = "none"

\* An uncaught exception ends the run.
Raise(kind) == pc' = "aborted" /\ failure' = kind

\* df_countries = get_countries_df()
GetCountries ==
    /\ pc = "get_countries_df"
    /\ \/ /\ requests' = Append(requests, [url |-> CountriesUrl, ok |-> FALSE])
          /\ Raise("network")
          /\ UNCHANGED <<data, df_countries>>
       \/ \E resp \in SeqsUpTo(CountryObjs, Budget) :
             /\ requests' = Append(requests, [url |-> CountriesUrl, ok |-> TRUE])
             /\ data' = resp
             /\ df_countries' = CountryRows(resp)
             /\ pc' = After("get_countries_df")
             /\ UNCHANGED failure
    /\ UNCHANGED <<max_pages, i, users, df_users, carts, df_sales, df_enriched,
                   output, stdout>>

\* Variant: a failed request is swallowed and the loop goes on.
FetchUsersPageSwallow ==
    /\ pc = "users"
    /\ i < max_pages
    /\ \/ /\ requests' = Append(requests, [url |-> PageUrl("/users", i), ok |-> FALSE])
          /\ i' = i + 1
          /\ UNCHANGED <<users, pc, failure>>
       \/ \E page \in SeqsUpTo(UserObjs, Budget) :
             /\ requests' = Append(requests, [url |-> PageUrl("/users", i), ok |-> TRUE])
             /\ users' = users \o page
             /\ i' = i + 1
             /\ UNCHANGED <<pc, failure>>
    /\ UNCHANGED <<max_pages, data, df_countries, df_users, carts, df_sales,
                   df_enriched, output, stdout>>
\* One pass of the users loop: a request, then users += page.
FetchUsersPage ==
    /\ pc = "users"
    /\ i < max_pages
    /\ \/ /\ requests' = Append(requests, [url |-> PageUrl("/users", i), ok |-> FALSE])
          /\ Raise("network")
          /\ UNCHANGED <<users, i>>
       \/ \E page \in SeqsUpTo(UserObjs, Budget) :
             /\ requests' = Append(requests, [url |-> PageUrl("/users", i), ok |-> TRUE])
             /\ users' = users \o page
             /\ i' = i + 1
             /\ UNCHANGED <<pc, failure>>
    /\ UNCHANGED <<max_pages, data, df_countries, df_users, carts, df_sales,
                   df_enriched, output, stdout>>

\* The users loop is over: users_rows and df_users.
BuildUsers ==
    /\ pc = "users"
    /\ i = max_pages
    /\ IF \E n \in 1..Len(users) : RaisesKeyError(users[n])
       THEN /\ Raise("KeyError")
            /\ UNCHANGED <<df_users, i>>
       ELSE /\ df_users' = UsersRows(users)
            /\ pc' = "carts"
            /\ i' = 0
            /\ UNCHANGED failure
    /\ UNCHANGED <<max_pages, data, df_countries, users, carts, df_sales,
                   df_enriched, output, requests, stdout>>

\* One pass of the carts loop: a request, then carts += page.
FetchCartsPage ==
    /\ pc = "carts"
    /\ i < max_pages
    /\ \/ /\ requests' = Append(requests, [url |-> PageUrl("/carts", i), ok |-> FALSE])
          /\ Raise("network")
          /\ UNCHANGED <<carts, i>>
       \/ \E page \in SeqsUpTo(CartObjs, Budget) :
             /\ requests' = Append(requests, [url |-> PageUrl("/carts", i), ok |-> TRUE])
             /\ carts' = carts \o page
             /\ i' = i + 1
             /\ UNCHANGED <<pc, failure>>
    /\ UNCHANGED <<max_pages, data, df_countries, users, df_users, df_sales,
                   df_enriched, output, stdout>>

\* The carts loop is over: sales_rows, the join with df_users, the return.
BuildSales ==
    /\ pc = "carts"
    /\ i = max_pages
    /\ df_sales' = SalesJoin(SalesRows(carts), df_users)
    /\ pc' = After("get_sales_df")
    /\ UNCHANGED <<max_pages, i, data, df_countries, users, df_users, carts,
                   df_enriched, output, requests, stdout, failure>>

\* df_enriched = df_sales.join(broadcast(df_countries), ...).select(...)
Enrich ==
    /\ pc = "join"
    /\ df_enriched' = EnrichJoin(df_sales, df_countries)
    /\ pc' = After("join")
    /\ UNCHANGED <<max_pages, i, data, df_countries, users, df_users, carts,
                   df_sales, output, requests, stdout, failure>>

\* df_enriched.write.format("delta").mode("overwrite").save(path)
Write ==
    /\ pc = "write"
    /\ output' = [version |-> output.version + 1, rows |-> df_enriched]
    /\ pc' = After("write")
    /\ UNCHANGED <<max_pages, i, data, df_countries, users, df_users, carts,
                   df_sales, df_enriched, requests, stdout, failure>>

\* print(header); df_enriched.explain(mode="simple")
Explain ==
    /\ pc = "explain"
    /\ \/ /\ stdout' = stdout \o <<[kind |-> "text"]>>
          /\ Raise("spark")
       \/ /\ stdout' = stdout \o <<[kind |-> "text"], [kind |-> "plan"]>>
          /\ pc' = After("explain")
          /\ UNCHANGED failure
    /\ UNCHANGED <<max_pages, i, data, df_countries, users, df_users, carts,
                   df_sales, df_enriched, output, requests>>

\* print(f"Total rows after join: {df_enriched.count():,}")
Count ==
    /\ pc = "count"
    /\ \/ /\ Raise("spark")
          /\ UNCHANGED stdout
       \/ /\ stdout' = Append(stdout, [kind |-> "count", n |-> Len(df_enriched)])
          /\ pc' = After("count")
          /\ UNCHANGED failure
    /\ UNCHANGED <<max_pages, i, data, df_countries, users, df_users, carts,
                   df_sales, df_enriched, output, requests>>

(***************************************************************************)
(* Stages reached, as seen in the state.                                   *)
(***************************************************************************)
\* get_countries_df has returned.
CountriesLoaded == Len(requests) >= 1 /\ requests[1].ok

\* get_sales_df has built df_users.
UsersBuilt ==
    \/ pc \in {"carts", "join", "write", "explain", "count", "done"}
    \/ pc = "aborted" /\ failure = "spark"
    \/ pc = "aborted" /\ failure = "network" /\ requests[Len(requests)].url.path = "/carts"

\* get_sales_df has returned.
SalesReturned ==
    \/ pc \in {"join", "write", "explain", "count", "done"}
    \/ pc = "aborted" /\ failure = "spark"

\* The broadcast join has been built.
Enriched ==
    \/ pc \in {"write", "explain", "count", "done"}
    \/ pc = "aborted" /\ failure = "spark"

Max(a, b) == IF a >= b THEN a ELSE b

RECURSIVE SumTo(_, _)
\* f[1] + ... + f[n]
SumTo(f, n) == IF n = 0 THEN 0 ELSE f[n] + SumTo(f, n - 1)

\* Country rows carrying the code of fact row f.
CodeCount(f) ==
    Cardinality({n \in 1..Len(df_countries) :
                    /\ f.country_code # None
                    /\ df_countries[n].country_code = f.country_code})

\* Fetched user records carrying userId uid.
UserCount(uid) == Cardinality({n \in 1..Len(users) : users[n].id = uid})

Next ==
    \/ GetCountries
    \/ FetchUsersPage
    \/ BuildUsers
    \/ FetchCartsPage
    \/ BuildSales
    \/ Enrich
    \/ Write
    \/ Explain
    \/ Count

Spec == Init /\ [][Next]_vars

(***************************************************************************)
(* Claims.                                                                 *)
(***************************************************************************)

\* C1 as stated: once the broadcast join is built, the enriched table has
\* exactly as many rows as the sales fact table, whatever country table
\* get_countries_df produced.
C1_RowCountEqual == Enriched => Len(df_enriched) = Len(df_sales)

\* C1 amended: no fact row is dropped, and a fact row yields one enriched row
\* per country row carrying its country_code (one row when there is none), so
\* the counts are equal whenever no code of a fact row occurs twice in the
\* country table.
C1_RowCountLeftJoin ==
    Enriched =>
        /\ Len(df_enriched) >= Len(df_sales)
        /\ Len(df_enriched) =
              SumTo([n \in 1..Len(df_sales) |-> Max(1, CodeCount(df_sales[n]))],
                    Len(df_sales))
        /\ (\A n \in 1..Len(df_sales) : CodeCount(df_sales[n]) <= 1)
              => Len(df_enriched) = Len(df_sales)

\* C1 witness: a fact row whose code two country rows carry, next to the join
\* result.
C1_Witness ==
    /\ pc = "done"
    /\ Len(df_sales) = 1
    /\ CodeCount(df_sales[1]) = 2
    /\ Len(df_enriched) = 2

\* C2 as stated: the sales fact table returned by get_sales_df has as many
\* rows as cart records were fetched, however many user records carry a
\* cart's userId.
C2_RowCountEqual == SalesReturned => Len(df_sales) = Len(carts)

\* C2 amended: no cart is dropped, found or not, and a cart yields one row per
\* fetched user record carrying its userId (one row when there is none), so
\* the counts are equal whenever no cart's userId is carried by two fetched
\* user records.
C2_RowCountLeftJoin ==
    SalesReturned =>
        /\ Len(df_sales) >= Len(carts)
        /\ Len(df_sales) =
              SumTo([n \in 1..Len(carts) |-> Max(1, UserCount(carts[n].userId))],
                    Len(carts))
        /\ (\A n \in 1..Len(carts) : UserCount(carts[n].userId) <= 1)
              => Len(df_sales) = Len(carts)

\* C2 witness: two carts, one of an unknown user and one of a user fetched
\* twice, after get_sales_df returned.
C2_Witness ==
    /\ SalesReturned
    /\ Len(carts) = 2
    /\ \E n \in 1..2 : UserCount(carts[n].userId) = 0
    /\ \E n \in 1..2 : UserCount(carts[n].userId) = 2
    /\ Len(df_sales) = 3

\* C3 as stated: every row of the country table has a country_code that is
\* exactly 2 letters long.
C3_TwoLetterCodes ==
    \A n \in 1..Len(df_countries) :
        /\ df_countries[n].country_code # None
        /\ Len(df_countries[n].country_code.s) = 2

\* C3 amended: the rows of the country table are, in order, the entries of
\* the response whose cca2 is present, not null and not empty, so every row
\* has a non-empty country_code; its length is not examined.
C3_NonEmptyCodes ==
    CountriesLoaded =>
        LET kept == SelectSeq(data, LAMBDA c :
                        /\ "cca2" \in DOMAIN c
                        /\ c.cca2 # None
                        /\ c.cca2 # S(<<>>))
        IN  /\ Len(df_countries) = Len(kept)
            /\ \A n \in 1..Len(kept) :
                  /\ df_countries[n].country_code = kept[n].cca2
                  /\ Len(df_countries[n].country_code.s) >= 1

\* C3 witness: a response with a 3-letter code, an absent code and an empty
\* or null code; only the 3-letter entry is kept.
C3_Witness ==
    /\ CountriesLoaded
    /\ Len(data) = 3
    /\ \E n \in 1..3 : "cca2" \notin DOMAIN data[n]
    /\ \E n \in 1..3 : "cca2" \in DOMAIN data[n] /\ ~Truthy(data[n].cca2)
    /\ Len(df_countries) = 1
    /\ Len(df_countries[1].country_code.s) = 3

\* The users whose country field is empty, null or missing.
EmptyOrMissingCountry(u) ==
    \/ "country" \notin DOMAIN u.address
    \/ u.address.country = None
    \/ u.address.country = S(<<>>)

\* C4 as stated: a fetched user record whose country field is empty, null or
\* missing never fails the run, and once df_users is built its row has
\* country_code "XX".
C4_SentinelOrMissing ==
    /\ failure # "KeyError"
    /\ UsersBuilt =>
          /\ Len(df_users) = Len(users)
          /\ \A n \in 1..Len(users) :
                EmptyOrMissingCountry(users[n])
                    => df_users[n].country_code = S(<<"X", "X">>)

\* C4, the part the code keeps: no fetch of records whose country field is
\* empty or null fails the run, and their rows carry "XX".
C4_EmptyOrNullSentinel ==
    UsersBuilt =>
        /\ Len(df_users) = Len(users)
        /\ \A n \in 1..Len(users) :
              /\ "country" \in DOMAIN users[n].address
              /\ ~Truthy(users[n].address.country)
                    => df_users[n].country_code = S(<<"X", "X">>)

\* C4 failing input: a fetched user record without the country key aborts
\* the run at the users_rows comprehension.
C4_Witness ==
    /\ pc = "aborted"
    /\ failure = "KeyError"
    /\ \E n \in 1..Len(users) : "country" \notin DOMAIN users[n].address

\* C5: every fact row appears in the enriched table with its sale_id and
\* amount, once with the name and region of each country row carrying its
\* country_code, or with null name and region when no country row carries it
\* (or it is null); the enriched table holds nothing else.
C5_JoinRows ==
    Enriched =>
        LET Rows(df) == {df[n] : n \in 1..Len(df)}
            Hits(f) == {c \in Rows(df_countries) :
                           f.country_code # None /\ c.country_code = f.country_code}
            Out(f) == IF Hits(f) = {}
                      THEN {[sale_id |-> f.sale_id, amount |-> f.amount,
                             country_name |-> None, region |-> None]}
                      ELSE {[sale_id |-> f.sale_id, amount |-> f.amount,
                             country_name |-> c.country_name, region |-> c.region] :
                                c \in Hits(f)}
        IN  Rows(df_enriched) = UNION {Out(f) : f \in Rows(df_sales)}

\* C5 witness: the enriched table holds a matched row with its country's name
\* and region next to the row of a fact row no country row matches.
C5_Witness ==
    /\ Enriched
    /\ \E n \in 1..Len(df_sales) : CodeCount(df_sales[n]) = 0
    /\ \E n \in 1..Len(df_sales) : CodeCount(df_sales[n]) = 1
    /\ \E n \in 1..Len(df_enriched) :
          /\ df_enriched[n].country_name = S("Switzerland")
          /\ df_enriched[n].region = S("Europe")
    /\ \E n \in 1..Len(df_enriched) :
          /\ df_enriched[n].country_name = None
          /\ df_enriched[n].region = None

\* h (hundredths) is t (thousandths) rounded to 2 decimals, ties away from
\* zero: nearest, and on a tie the one of larger magnitude.
IsRoundedHalfUp(h, t) ==
    /\ Abs(10 * h - t) <= 5
    /\ Abs(10 * h - t) = 5 => Abs(10 * h) > Abs(t)

\* The total of a cart in thousandths.
TotalThousandths(cart) ==
    IF cart.total.k = "int" THEN 1000 * cart.total.n ELSE cart.total.t

\* C6: every row written to the output carries the total of a fetched cart
\* of that sale_id rounded to 2 decimals, halves up (12345 thousandths give
\* 1235 hundredths), every fetched cart has such a row, and the broadcast
\* join keeps the (sale_id, amount) pairs of the sales fact table as they are.
C6_AmountsRounded ==
    /\ Enriched =>
          {<<df_enriched[n].sale_id, df_enriched[n].amount>> : n \in 1..Len(df_enriched)}
          = {<<df_sales[n].sale_id, df_sales[n].amount>> : n \in 1..Len(df_sales)}
    /\ output.version > 0 =>
          /\ \A m \in 1..Len(output.rows) :
                \E n \in 1..Len(carts) :
                    /\ output.rows[m].sale_id = FormatId(carts[n].id)
                    /\ IsRoundedHalfUp(output.rows[m].amount, TotalThousandths(carts[n]))
          /\ \A n \in 1..Len(carts) :
                \E m \in 1..Len(output.rows) :
                    /\ output.rows[m].sale_id = FormatId(carts[n].id)
                    /\ IsRoundedHalfUp(output.rows[m].amount, TotalThousandths(carts[n]))

\* C6 witness: the output holds 12.35 for a cart of total 12.345, -12.35 for
\* one of total -12.345 and 7.00 for one of total 7.
C6_Witness ==
    /\ output.version = 1
    /\ \E n \in 1..Len(carts) : carts[n].total = JNum(12345)
    /\ \E n \in 1..Len(carts) : carts[n].total = JNum(-12345)
    /\ \E n \in 1..Len(carts) : carts[n].total = JInt(7)
    /\ {output.rows[m].amount : m \in 1..Len(output.rows)} = {1235, -1235, 700}

\* C7: a failed network fetch is the last request of the run, the run is
\* aborted there with nothing left to execute, the output location keeps the
\* version and rows it had, and nothing is printed; any failure leaves the run
\* aborted with no further step.
C7_FetchFailureAborts ==
    /\ \A n \in 1..Len(requests) :
          ~requests[n].ok =>
              /\ n = Len(requests)
              /\ pc = "aborted"
              /\ failure = "network"
              /\ output = [version |-> 0, rows |-> OldRows]
              /\ stdout = <<>>
    /\ failure # "none" <=> pc = "aborted"
    /\ pc = "aborted" => ~ENABLED Next

\* C7 witness: a cart page fails after a user page and a cart page were
\* fetched.
C7_Witness ==
    /\ Len(requests) = 5
    /\ ~requests[5].ok
    /\ requests[5].url.path = "/carts"
    /\ Len(users) > 0
    /\ Len(carts) > 0
    /\ pc = "aborted"

\* The requests of a run of get_sales_df(p) in which none fails.
ExpectedPageUrls(p) ==
    [n \in 1..(2 * p) |->
        [host  |-> "dummyjson.com",
         path  |-> IF n <= p THEN "/users" ELSE "/carts",
         limit |-> 100,
         skip  |-> 100 * (IF n <= p THEN n - 1 ELSE n - p - 1)]]

C9_StagesInSequence ==
    /\ \A n \in 1..Len(requests) : requests[n].url = CountriesUrl <=> n = 1
    /\ output.version \in {0, 1}
    /\ output.version = 1 =>
          /\ Len(requests) = 1 + 2 * max_pages
          /\ \A n \in 1..Len(requests) : requests[n].ok
          /\ output.rows = df_enriched
    /\ stdout # <<>> => output.version = 1
    /\ Len(stdout) <= 3
    /\ \A n \in 1..Len(stdout) : stdout[n].kind = <<"text", "plan", "count">>[n]
    /\ failure = "spark" =>
          /\ output = [version |-> 1, rows |-> df_enriched]
          /\ Len(stdout) \in {1, 2}
    /\ pc = "done" =>
          /\ Len(stdout) = 3
          /\ stdout[3].n = Len(output.rows)

\* C9 witness: counting the rows failed after the plan was printed, and the
\* output location holds the new rows.
C9_Witness ==
    /\ pc = "aborted"
    /\ failure = "spark"
    /\ Len(stdout) = 2
    /\ output.version = 1
    /\ output.rows # OldRows
    /\ Len(output.rows) = 2

\* The sale_id values of the sales fact table are pairwise distinct.
SaleIdsUnique ==
    \A m, n \in 1..Len(df_sales) : m # n => df_sales[m].sale_id # df_sales[n].sale_id

\* C10 as stated: no two rows of the sales fact table returned by
\* get_sales_df have the same sale_id, whatever pages the API returned.
C10_SaleIdUnique == SalesReturned => SaleIdsUnique

\* C10 amended: no two rows have the same sale_id exactly when no two fetched
\* carts have ids that format to the same string and no cart's userId is
\* carried by two fetched user records.
C10_SaleIdUniqueIff ==
    SalesReturned =>
        (SaleIdsUnique <=>
            /\ \A m, n \in 1..Len(carts) :
                  m # n => FormatId(carts[m].id) # FormatId(carts[n].id)
            /\ \A n \in 1..Len(carts) : UserCount(carts[n].userId) <= 1)

\* C10 witness: two carts of one user fetched once, with distinct ids, give
\* two rows with distinct sale_id.
C10_Witness ==
    /\ SalesReturned
    /\ Len(carts) = 2
    /\ carts[1].userId = carts[2].userId
    /\ UserCount(carts[1].userId) = 1
    /\ Len(df_sales) = 2
    /\ SaleIdsUnique

====
